---- MODULE Spec2Model ----
(***************************************************************************)
(* A model of batch_process.py: file discovery with the depth filter, the  *)
(* interactive ROISelector, process_image and the batch loop.              *)
(*                                                                         *)
(* Strings are sequences of one-character strings, so that str.split,      *)
(* os.path.join, fnmatch and sorted() are computed character by character. *)
(* Event coordinates (xdata, ydata) and axis limits are floats of the form *)
(* k/2 and are held as the integer k ("half units"); int() truncates them. *)
(* Python's None is the empty tuple <<>>; an MTF value v is held as <<v>>. *)
(***************************************************************************)
EXTENDS Integers, Sequences, FiniteSets, TLC

VARIABLES
    pc,              \* position in batch_process
    directory_path,  \* argument of batch_process
    frequency,       \* argument of batch_process
    fs,              \* the files below the directory (paths relative to it)
    image_paths,     \* local of batch_process
    error,           \* the exception that left batch_process, "none" if none
    sel,             \* the ROISelector of get_roi: "none", or "show" inside plt.show()
    self_roi,        \* ROISelector.roi
    selecting_roi,   \* ROISelector.selecting_roi
    original_xlim,   \* ROISelector.original_xlim
    original_ylim,   \* ROISelector.original_ylim
    xlim,            \* the axes' current x limits
    ylim,            \* the axes' current y limits
    confirmed,       \* the confirm button closed the figure
    roi,             \* local of batch_process
    idx,             \* position of the for loop in image_paths (1-based)
    results,         \* local of batch_process: sequence of <<path, value>>
    printed,         \* the lines printed by the loop
    selections,      \* log: the paths get_roi was called with
    decodes,         \* log: the paths LoadImageAsArray was called with
    calls,           \* log: the process_image calls of the loop
    arg,             \* arguments of a stand-alone process_image or select_roi call
    ret,             \* its outcome
    tick,            \* log of a stand-alone ROISelector: flips with every event
    last_event,      \* log: the event delivered last
    last_drag,       \* log: the bounds of the drag reported last while the figure was shown
    late_drag        \* log: a drag was reported after the figure closed, inside plt.show()

vars == <<pc, directory_path, frequency, fs, image_paths, error, sel, self_roi,
          selecting_roi, original_xlim, original_ylim, xlim, ylim, confirmed,
          roi, idx, results, printed, selections, decodes, calls, arg, ret, tick, last_event, last_drag, late_drag>>

----------------------------------------------------------------------------
(* Bounds of the model *)

\* most files in the directory tree of a whole batch run
MaxFiles == 3
\* image widths and heights are 1..MaxDim
MaxDim == 2
\* integer ROI coordinates of a stand-alone process_image call are -MaxCoord..MaxCoord
MaxCoord == 2

\* the depth limit of the filter in batch_process
MaxDepth == 4

None == <<>>

----------------------------------------------------------------------------
(* Strings *)

sep == "/"

\* ord() of the characters the model's paths use
CharCode(c) ==
    CASE c = "*" -> 42 [] c = "." -> 46 [] c = "/" -> 47
      [] c = "0" -> 48 [] c = "1" -> 49 [] c = "2" -> 50 [] c = "3" -> 51
      [] c = "4" -> 52 [] c = "5" -> 53 [] c = "6" -> 54 [] c = "7" -> 55
      [] c = "8" -> 56 [] c = "9" -> 57
      [] c = "G" -> 71 [] c = "N" -> 78 [] c = "P" -> 80
      [] c = "[" -> 91 [] c = "]" -> 93
      [] c = "a" -> 97 [] c = "b" -> 98 [] c = "c" -> 99 [] c = "d" -> 100
      [] c = "e" -> 101 [] c = "g" -> 103 [] c = "h" -> 104 [] c = "j" -> 106
      [] c = "n" -> 110 [] c = "p" -> 112 [] c = "r" -> 114 [] c = "t" -> 116
      [] c = "x" -> 120

\* Python's str < str: lexicographic by code point, a proper prefix is smaller
RECURSIVE StrLess(_, _)
StrLess(a, b) ==
    IF b = <<>> THEN FALSE
    ELSE IF a = <<>> THEN TRUE
    ELSE IF a[1] = b[1] THEN StrLess(Tail(a), Tail(b))
    ELSE CharCode(a[1]) < CharCode(b[1])

\* str.split(s): the pieces of str between the occurrences of s
RECURSIVE SplitFrom(_, _, _)
SplitFrom(str, s, cur) ==
    IF str = <<>> THEN <<cur>>
    ELSE IF str[1] = s THEN <<cur>> \o SplitFrom(Tail(str), s, <<>>)
    ELSE SplitFrom(Tail(str), s, Append(cur, str[1]))

Split(str, s) == SplitFrom(str, s, <<>>)

\* os.path.join(a, b) on POSIX
PathJoin(a, b) ==
    IF b # <<>> /\ b[1] = sep THEN b
    ELSE IF a = <<>> \/ a[Len(a)] = sep THEN a \o b
    ELSE a \o <<sep>> \o b

\* fnmatch.fnmatchcase(name, pat) for patterns made of literals, * and [...]
RECURSIVE ClassEnd(_, _)
ClassEnd(pat, i) == IF pat[i] = "]" THEN i ELSE ClassEnd(pat, i + 1)

RECURSIVE FnMatch(_, _)
FnMatch(name, pat) ==
    IF pat = <<>> THEN name = <<>>
    ELSE IF pat[1] = "*"
        THEN FnMatch(name, Tail(pat)) \/ (name # <<>> /\ FnMatch(Tail(name), pat))
    ELSE IF pat[1] = "["
        THEN LET k == ClassEnd(pat, 2)
             IN  /\ name # <<>>
                 /\ \E i \in 2..(k - 1) : pat[i] = name[1]
                 /\ FnMatch(Tail(name), SubSeq(pat, k + 1, Len(pat)))
    ELSE name # <<>> /\ name[1] = pat[1] /\ FnMatch(Tail(name), Tail(pat))

----------------------------------------------------------------------------
(* The file system and glob.glob(pattern, recursive=True) *)

\* The files a directory tree is drawn from, as paths relative to the directory:
\* 1.png  a/2.jpg  a/b/c/3.jpeg  a/b/c/d/4.png  a/5.txt  a/6.ppg  7.PNG
\* .h/8.png  a/b/c/d/e/9.jpg  d.png/0.txt (d.png is a directory)
Files ==
    { <<"1", ".", "p", "n", "g">>,
      <<"a", "/", "2", ".", "j", "p", "g">>,
      <<"a", "/", "b", "/", "c", "/", "3", ".", "j", "p", "e", "g">>,
      <<"a", "/", "b", "/", "c", "/", "d", "/", "4", ".", "p", "n", "g">>,
      <<"a", "/", "5", ".", "t", "x", "t">>,
      <<"a", "/", "6", ".", "p", "p", "g">>,
      <<"7", ".", "P", "N", "G">>,
      <<".", "h", "/", "8", ".", "p", "n", "g">>,
      <<"a", "/", "b", "/", "c", "/", "d", "/", "e", "/", "9", ".", "j", "p", "g">>,
      <<"d", ".", "p", "n", "g", "/", "0", ".", "t", "x", "t">> }

\* The files the tree of a whole batch run is drawn from:
\* 1.png  a/2.jpg  a/b/c/d/4.png  a/5.txt
RunFiles ==
    { <<"1", ".", "p", "n", "g">>,
      <<"a", "/", "2", ".", "j", "p", "g">>,
      <<"a", "/", "b", "/", "c", "/", "d", "/", "4", ".", "p", "n", "g">>,
      <<"a", "/", "5", ".", "t", "x", "t">> }

\* The spellings of the directory: r  r/  /r  /r/
Roots ==
    { <<"r">>, <<"r", "/">>, <<"/", "r">>, <<"/", "r", "/">> }

Last(s) == s[Len(s)]

\* the extension of a path: from the last dot of its last segment on
RECURSIVE ExtFrom(_, _)
ExtFrom(name, i) ==
    IF i = 0 THEN <<>>
    ELSE IF name[i] = "." THEN SubSeq(name, i, Len(name))
    ELSE ExtFrom(name, i - 1)

Ext(path) == LET name == Last(Split(path, sep)) IN ExtFrom(name, Len(name))

\* glob never matches a name that starts with a dot against * or **
Visible(rel) == \A i \in 1..Len(Split(rel, sep)) : Split(rel, sep)[i][1] # "."

RECURSIVE StripSeps(_)
StripSeps(s) ==
    IF s # <<>> /\ Last(s) = sep /\ \E i \in 1..Len(s) : s[i] # sep
    THEN StripSeps(SubSeq(s, 1, Len(s) - 1))
    ELSE s

RECURSIVE FirstStar(_, _)
FirstStar(pat, i) == IF pat[i] = "*" THEN i ELSE FirstStar(pat, i + 1)

\* the literal directory a pattern <dir>/**/<name pattern> starts with
GlobDir(pattern) == StripSeps(SubSeq(pattern, 1, FirstStar(pattern, 1) - 1))

\* the name pattern a pattern ends with
GlobName(pattern) == Last(Split(pattern, sep))

\* the lists that hold every element of S once: glob yields its matches in
\* the order os.scandir lists the directories, which is any order
RECURSIVE Orders(_)
Orders(S) ==
    IF S = {} THEN { <<>> }
    ELSE UNION { { <<x>> \o t : t \in Orders(S \ {x}) } : x \in S }

\* the directories that hold the files `files`, as paths below the root
Dirs(files) ==
    UNION { { SubSeq(f, 1, i - 1) : i \in { k \in 1..Len(f) : f[k] = sep } } : f \in files }

\* the lists glob.glob(pattern, recursive=True) may return over the files
\* `files` of the directory: glob matches the names of files and of
\* directories alike
Glob(pattern, files) ==
    Orders({ PathJoin(GlobDir(pattern), rel) :
               rel \in { f \in files \cup Dirs(files) :
                           /\ Visible(f)
                           /\ FnMatch(Last(Split(f, sep)), GlobName(pattern)) } })

\* a slip: the list sorted in descending order
RECURSIVE InsertReversed(_, _)
InsertReversed(x, s) ==
    IF s = <<>> THEN <<x>>
    ELSE IF StrLess(s[1], x) THEN <<x>> \o s
    ELSE <<s[1]>> \o InsertReversed(x, Tail(s))

\* sorted(list)
RECURSIVE Insert(_, _)
Insert(x, s) ==
    IF s = <<>> THEN <<x>>
    ELSE IF StrLess(x, s[1]) THEN <<x>> \o s
    ELSE <<s[1]>> \o Insert(x, Tail(s))

\* a slip: sorted() left out
SortedNot(s) == s

RECURSIVE Sorted(_)
Sorted(s) == IF s = <<>> THEN <<>> ELSE Insert(s[1], Sorted(Tail(s)))

----------------------------------------------------------------------------
(* batch_process, lines 125-136: discovery *)

file_pattern(dir) ==
    PathJoin(PathJoin(dir, <<"*", "*">>),
             <<"*", ".", "[", "j", "p", "]", "[", "p", "n", "]", "g">>)

jpeg_pattern(dir) ==
    PathJoin(PathJoin(dir, <<"*", "*">>), <<"*", ".", "j", "p", "e", "g">>)

\* the condition of the depth filter
DepthOk(path, dir) == Len(Split(path, sep)) - Len(Split(dir, sep)) <= MaxDepth

RECURSIVE DepthFilter(_, _)
DepthFilter(paths, dir) ==
    IF paths = <<>> THEN <<>>
    ELSE IF DepthOk(paths[1], dir)
        THEN <<paths[1]>> \o DepthFilter(Tail(paths), dir)
        ELSE DepthFilter(Tail(paths), dir)

\* image_paths as lines 126-133 compute it, for every order glob may yield
DiscoverPaths(dir, files) ==
    { DepthFilter(Sorted(g1 \o g2), dir) :
        g1 \in Glob(file_pattern(dir), files), g2 \in Glob(jpeg_pattern(dir), files) }

----------------------------------------------------------------------------
(* The external collaborators: what they may answer *)

\* the shapes LoadImageAsArray may return, as <<width, height>>
Dims == (1..MaxDim) \X (1..MaxDim)

\* LoadImageAsArray(path): an array of some shape, or None when it raises
DecodeOutcomes == {None} \cup Dims

\* the same in a whole batch run: the images are 1 x 1 or 2 x 2
RunShapes == { <<1, 1>>, <<2, 2>> }
RunDecodeOutcomes == {None} \cup RunShapes

\* the MTF values GetMtfValue may return, in hundredths
Values == {0, 42}

\* GetMtfValue(res, frequency): <<v>>, or None when it raises
GetOutcomes == {None} \cup { <<v>> : v \in Values }

\* the frequency the run is asked for, in tenths
Frequencies == {5}

\* what a call may raise: an instance of Exception, or of a class that
\* derives from BaseException only (KeyboardInterrupt, SystemExit,
\* GeneratorExit)
ExceptionKinds == {"Exception", "BaseException"}

\* a slip: the code without its try/except
ExceptCatchesNothing(exc) == FALSE

\* `except Exception` at lines 103, 110 and 153 catches an exception of
\* class exc
ExceptCatches(exc) == exc = "Exception"

----------------------------------------------------------------------------
(* process_image *)

Min(a, b) == IF a < b THEN a ELSE b
Max(a, b) == IF a > b THEN a ELSE b

\* a slice bound as Python clamps it for a sequence of length n
SliceBound(i, n) == IF i < 0 THEN Max(i + n, 0) ELSE Min(i, n)

\* len(range(n)[start:stop])
SliceLen(start, stop, n) == Max(SliceBound(stop, n) - SliceBound(start, n), 0)

\* the shape <<width, height>> of imgArr after lines 91-93
Crop(img, r) ==
    IF r # <<>>
    THEN <<SliceLen(r[1], r[3], img[1]), SliceLen(r[2], r[4], img[2])>>
    ELSE img

\* imgArr.size
Size(img) == img[1] * img[2]

\* process_image(image_path, frequency, roi), given what the collaborators
\* answer: img is LoadImageAsArray's answer, calc whether CalculateMtf
\* returns, get GetMtfValue's answer, exc the class of what the first of
\* them to raise raises.  raised: an exception left the call; value: the
\* value returned; engine: CalculateMtf was called.
process_image(img, r, calc, get, exc) ==
    IF img = None
    THEN [raised |-> TRUE, value |-> None, engine |-> FALSE]
    ELSE IF Size(Crop(img, r)) = 0
    THEN [raised |-> FALSE, value |-> None, engine |-> FALSE]
    ELSE IF ~calc \/ get = None
    THEN [raised |-> ~ExceptCatches(exc), value |-> None, engine |-> TRUE]
    ELSE [raised |-> FALSE, value |-> get, engine |-> TRUE]

----------------------------------------------------------------------------
(* ROISelector *)

\* int(x) of a float held in half units: truncation towards zero
int(k) == IF k >= 0 THEN k \div 2 ELSE -((-k) \div 2)

\* the limits imshow gives the axes for an image of shape <<w, h>>
ImshowXlim(img) == <<-1, 2 * img[1] - 1>>
ImshowYlim(img) == <<2 * img[2] - 1, -1>>

\* the views the toolbar's pan/zoom may leave the axes in
Views == { [x |-> <<-1, 1>>, y |-> <<1, -1>>] }

\* the event coordinates tried inside axis limits: the odd half units
Coords(lim) == { k \in Min(lim[1], lim[2])..Max(lim[1], lim[2]) : k % 2 = 1 }

\* the bounds of a drag as a rectangle of whole pixels, line 31
Bounds(drag) == <<int(drag[1]), int(drag[2]), int(drag[3]), int(drag[4])>>

\* self.roi after on_select(eclick, erelease)
on_select_roi(armed, old, ex, ey, rx, ry) ==
    IF armed THEN <<int(ex), int(ey), int(rx), int(ry)>> ELSE old

\* a slip: reset_zoom restoring the x limits only
reset_zoom_lims_x(orig_x, orig_y, cur_x, cur_y) ==
    IF orig_x # None /\ orig_y # None THEN <<orig_x, cur_y>> ELSE <<cur_x, cur_y>>

\* the axes' <<xlim, ylim>> after reset_zoom
reset_zoom_lims(orig_x, orig_y, cur_x, cur_y) ==
    IF orig_x # None /\ orig_y # None THEN <<orig_x, orig_y>> ELSE <<cur_x, cur_y>>

\* the limits of the empty axes plt.subplots() makes: (0.0, 1.0)
DefaultLim == <<0, 2>>

\* an entry of the event log: what was delivered, for a click on
\* 'Reset Zoom' the <<xlim, ylim>> it found, and whether the handler raised
Event(kind, from) == [kind |-> kind, from |-> from, raised |-> FALSE]
Raised(kind) == [kind |-> kind, from |-> None, raised |-> TRUE]
NoEvent == Event("none", None)

\* confirm_roi takes the branch that closes the figure
ConfirmCloses(candidate) == candidate # None

\* a slip: select_roi without the test of line 65
SelectRaisesNever(candidate) == FALSE

\* select_roi raises after plt.show() returned
SelectRaises(candidate) == candidate = None

----------------------------------------------------------------------------
(* batch_process and get_roi *)

\* a slip: the emptiness test of line 135 left out
NoImagesNever(paths) == FALSE

\* `if not image_paths`
NoImages(paths) == paths = <<>>

\* a slip: the reference image taken from the wrong end of the list
first_image_path_last(paths) == paths[Len(paths)]

\* the image the ROI is selected on
first_image_path(paths) == paths[1]

\* d[k] = v on a dict held as a sequence of <<key, value>> in insertion order
DictSet(d, k, v) ==
    IF \E i \in 1..Len(d) : d[i][1] = k
    THEN [i \in 1..Len(d) |-> IF d[i][1] = k THEN <<k, v>> ELSE d[i]]
    ELSE Append(d, <<k, v>>)

Keys(d) == { d[i][1] : i \in 1..Len(d) }

\* a slip: the `is None` test of line 147 left out
StoreResultAlways(res, path, out) ==
    IF out.raised THEN res
    ELSE DictSet(res, path, IF out.value = None THEN 0 ELSE out.value[1])

\* results after lines 146-151, for what process_image did
StoreResult(res, path, out) ==
    IF out.raised \/ out.value = None THEN res ELSE DictSet(res, path, out.value[1])

\* the line print() is called with at line 152
PrintLine(path, f, v) == [path |-> path, frequency |-> f, percentage |-> 100 * v]

\* the rectangle each process_image call of the loop is given
LoopRoi(r) == r

NoSelector ==
    /\ sel' = "none"
    /\ self_roi' = None
    /\ selecting_roi' = FALSE
    /\ original_xlim' = None
    /\ original_ylim' = None
    /\ xlim' = None
    /\ ylim' = None

InitRun ==
    /\ pc = "start"
    /\ directory_path \in Roots
    /\ frequency \in Frequencies
    /\ image_paths = <<>>
    /\ error = "none"
    /\ sel = "none"
    /\ self_roi = None
    /\ selecting_roi = FALSE
    /\ original_xlim = None
    /\ original_ylim = None
    /\ xlim = None
    /\ ylim = None
    /\ confirmed = FALSE
    /\ roi = None
    /\ idx = 0
    /\ results = <<>>
    /\ printed = <<>>
    /\ selections = <<>>
    /\ decodes = <<>>
    /\ calls = <<>>
    /\ arg = None
    /\ ret = None
    /\ tick = FALSE
    /\ last_event = NoEvent
    /\ last_drag = None
    /\ late_drag = FALSE

Init ==
    /\ InitRun
    /\ fs \in { t \in SUBSET RunFiles : Cardinality(t) <= MaxFiles }

\* lines 125-136
Discover ==
    /\ pc = "start"
    /\ image_paths' \in DiscoverPaths(directory_path, fs)
    /\ IF NoImages(image_paths')
       THEN pc' = "raised" /\ error' = "NoImagesFound"
       ELSE pc' = "discovered" /\ error' = error
    /\ UNCHANGED <<directory_path, frequency, fs, sel, self_roi, selecting_roi,
                   original_xlim, original_ylim, xlim, ylim, confirmed, roi, idx,
                   results, printed, selections, decodes, calls, arg, ret, tick, last_event, last_drag, late_drag>>

\* lines 139-140: get_roi up to plt.show() in select_roi
GetRoi ==
    /\ pc = "discovered"
    /\ selections' = Append(selections, first_image_path(image_paths))
    /\ decodes' = Append(decodes, first_image_path(image_paths))
    /\ \E img \in RunDecodeOutcomes :
          IF img = None
          THEN /\ pc' = "raised"
               /\ error' = "DecodeError"
               /\ UNCHANGED <<sel, self_roi, selecting_roi, original_xlim,
                              original_ylim, xlim, ylim>>
          ELSE /\ pc' = "select"
               /\ error' = error
               /\ sel' = "show"
               /\ self_roi' = None
               /\ original_xlim' = ImshowXlim(img)
               /\ original_ylim' = ImshowYlim(img)
               /\ xlim' = ImshowXlim(img)
               /\ ylim' = ImshowYlim(img)
               /\ selecting_roi' = TRUE
    /\ UNCHANGED <<directory_path, frequency, fs, image_paths, confirmed, roi, idx,
                   results, printed, calls, arg, ret, tick, last_event, last_drag, late_drag>>

\* the figure's event loop can deliver an event to a handler: the figure is
\* shown, or it has closed and plt.show() has not returned yet
Handling == sel \in {"show", "closed"}

\* RectangleSelector reports a completed drag
OnSelect ==
    /\ Handling
    /\ \E ex \in Coords(xlim), rx \in Coords(xlim), ey \in Coords(ylim), ry \in Coords(ylim) :
          self_roi' = on_select_roi(selecting_roi, self_roi, ex, ey, rx, ry)
    /\ UNCHANGED <<pc, directory_path, frequency, fs, image_paths, error, sel,
                   selecting_roi, original_xlim, original_ylim, xlim, ylim, confirmed,
                   roi, idx, results, printed, selections, decodes, calls, arg, ret, tick, last_event, last_drag, late_drag>>

\* the 'Reset Zoom' button is clicked
ResetZoom ==
    /\ Handling
    /\ xlim' = reset_zoom_lims(original_xlim, original_ylim, xlim, ylim)[1]
    /\ ylim' = reset_zoom_lims(original_xlim, original_ylim, xlim, ylim)[2]
    /\ UNCHANGED <<pc, directory_path, frequency, fs, image_paths, error, sel, self_roi,
                   selecting_roi, original_xlim, original_ylim, confirmed,
                   roi, idx, results, printed, selections, decodes, calls, arg, ret, tick, last_event, last_drag, late_drag>>

\* the operator pans or zooms with the figure's toolbar
PanZoom ==
    /\ sel = "show"
    /\ \E v \in Views : xlim' = v.x /\ ylim' = v.y
    /\ UNCHANGED <<pc, directory_path, frequency, fs, image_paths, error, sel, self_roi,
                   selecting_roi, original_xlim, original_ylim, confirmed,
                   roi, idx, results, printed, selections, decodes, calls, arg, ret, tick, last_event, last_drag, late_drag>>

\* The figure has closed and plt.show() returns: lines 63-67 of select_roi,
\* get_roi's return and lines 140-143 of batch_process.  The ROISelector is
\* a local of get_roi and is gone when get_roi has returned or raised.
SelectRoiReturn ==
    /\ pc = "select"
    /\ sel = "closed"
    /\ IF SelectRaises(self_roi)
       THEN /\ pc' = "raised"
            /\ error' = "NoRoiSelected"
            /\ UNCHANGED <<roi, idx>>
       ELSE /\ pc' = "loop"
            /\ error' = error
            /\ roi' = self_roi
            /\ idx' = 1
    /\ NoSelector
    /\ UNCHANGED <<directory_path, frequency, fs, image_paths,
                   confirmed, results, printed, selections, decodes, calls, arg, ret, tick, last_event, last_drag, late_drag>>

\* the 'Confirm ROI' button is clicked: confirm_roi prints, and with a
\* candidate it then calls plt.close(), which closes the figure if it is
\* shown.  When print() raises (prt is false) the handler ends there, the
\* event loop reports the exception and goes on.
ConfirmRoi ==
    /\ Handling
    /\ \E prt \in BOOLEAN :
       IF prt /\ ConfirmCloses(self_roi) /\ sel = "show"
       THEN /\ confirmed' = TRUE
            /\ sel' = "closed"
            /\ UNCHANGED <<pc, directory_path, frequency, fs, image_paths, error, self_roi,
                           selecting_roi, original_xlim, original_ylim, xlim, ylim, roi, idx,
                           results, printed, selections, decodes, calls, arg, ret, tick,
                           last_event, last_drag, late_drag>>
       ELSE UNCHANGED vars

\* the operator closes the figure's window
CloseSurface ==
    /\ sel = "show"
    /\ sel' = "closed"
    /\ UNCHANGED <<pc, directory_path, frequency, fs, image_paths, error, self_roi,
                   selecting_roi, original_xlim, original_ylim, xlim, ylim, confirmed, roi, idx,
                   results, printed, selections, decodes, calls, arg, ret, tick,
                   last_event, last_drag, late_drag>>

\* one iteration of the loop, lines 144-155
LoopStep ==
    /\ pc = "loop"
    /\ idx <= Len(image_paths)
    /\ \E img \in RunDecodeOutcomes, calc \in BOOLEAN, get \in GetOutcomes, prt \in BOOLEAN,
          exc \in ExceptionKinds :
          LET path == image_paths[idx]
              out == process_image(img, LoopRoi(roi), calc, get, exc)
              stored == StoreResult(results, path, out)
              \* print() raises when stdout fails or the value has no format
              shown == stored # results /\ prt /\ out.value # None
              failed == out.raised \/ (stored # results /\ ~shown)
          IN  /\ calls' = Append(calls, [path |-> path, roi |-> LoopRoi(roi),
                                         raised |-> out.raised, value |-> out.value])
              /\ decodes' = Append(decodes, path)
              /\ results' = stored
              /\ printed' = IF shown
                            THEN Append(printed, PrintLine(path, frequency, out.value[1]))
                            ELSE printed
              /\ IF failed /\ ~ExceptCatches(exc)
                 THEN pc' = "raised" /\ error' = exc /\ idx' = idx
                 ELSE pc' = pc /\ error' = error /\ idx' = idx + 1
    /\ UNCHANGED <<directory_path, frequency, fs, image_paths, sel, self_roi,
                   selecting_roi, original_xlim, original_ylim, xlim, ylim, confirmed,
                   roi, selections, arg, ret, tick, last_event, last_drag, late_drag>>

\* line 157
Return ==
    /\ pc = "loop"
    /\ idx > Len(image_paths)
    /\ pc' = "returned"
    /\ UNCHANGED <<directory_path, frequency, fs, image_paths, error, sel, self_roi,
                   selecting_roi, original_xlim, original_ylim, xlim, ylim, confirmed,
                   roi, idx, results, printed, selections, decodes, calls, arg, ret, tick, last_event, last_drag, late_drag>>

Next ==
    \/ Discover
    \/ GetRoi
    \/ OnSelect
    \/ ConfirmRoi
    \/ ResetZoom
    \/ PanZoom
    \/ CloseSurface
    \/ SelectRoiReturn
    \/ LoopStep
    \/ Return

\* a run of batch_process
Spec == Init /\ [][Next]_vars

----------------------------------------------------------------------------
(* Discovery alone, over every directory tree *)

InitDiscovery ==
    /\ InitRun
    /\ fs \in SUBSET Files

NextDiscovery == Discover

SpecDiscovery == InitDiscovery /\ [][NextDiscovery]_vars

----------------------------------------------------------------------------
(* process_image alone, over every image shape, rectangle and engine answer *)

Rects == (-MaxCoord..MaxCoord) \X (-MaxCoord..MaxCoord) \X (-MaxCoord..MaxCoord) \X (-MaxCoord..MaxCoord)

InitEval ==
    /\ pc = "eval"
    /\ directory_path = <<>>
    /\ frequency \in Frequencies
    /\ fs = {}
    /\ image_paths = <<>>
    /\ error = "none"
    /\ sel = "none"
    /\ self_roi = None
    /\ selecting_roi = FALSE
    /\ original_xlim = None
    /\ original_ylim = None
    /\ xlim = None
    /\ ylim = None
    /\ confirmed = FALSE
    /\ roi = None
    /\ idx = 0
    /\ results = <<>>
    /\ printed = <<>>
    /\ selections = <<>>
    /\ decodes = <<>>
    /\ calls = <<>>
    /\ arg \in [img : DecodeOutcomes, roi : {None} \cup Rects, calc : BOOLEAN, get : GetOutcomes,
               exc : ExceptionKinds]
    /\ ret = None
    /\ tick = FALSE
    /\ last_event = NoEvent
    /\ last_drag = None
    /\ late_drag = FALSE

\* process_image(path, frequency, roi) is called and returns or raises
Evaluate ==
    /\ pc = "eval"
    /\ pc' = "evaluated"
    /\ ret' = <<process_image(arg.img, arg.roi, arg.calc, arg.get, arg.exc)>>
    /\ UNCHANGED <<directory_path, frequency, fs, image_paths, error, sel, self_roi,
                   selecting_roi, original_xlim, original_ylim, xlim, ylim, confirmed,
                   roi, idx, results, printed, selections, decodes, calls, arg,
                   tick, last_event, last_drag, late_drag>>

NextEval == Evaluate

SpecEval == InitEval /\ [][NextEval]_vars

----------------------------------------------------------------------------
(* One ROISelector alone: its handlers may be called at any time after    *)
(* __init__, and select_roi may be called again on the same object.  The   *)
(* log (tick, last_event, last_drag) records what was delivered.           *)

batch_vars == <<directory_path, frequency, fs, image_paths, error, roi, idx, results,
                printed, selections, decodes, calls>>

\* the state after ROISelector(), lines 10-27
InitSelector ==
    /\ pc = "selector"
    /\ directory_path = <<>>
    /\ frequency \in Frequencies
    /\ fs = {}
    /\ image_paths = <<>>
    /\ error = "none"
    /\ sel = "idle"
    /\ self_roi = None
    /\ selecting_roi = FALSE
    /\ original_xlim = None
    /\ original_ylim = None
    /\ xlim = DefaultLim
    /\ ylim = DefaultLim
    /\ confirmed = FALSE
    /\ roi = None
    /\ idx = 0
    /\ results = <<>>
    /\ printed = <<>>
    /\ selections = <<>>
    /\ decodes = <<>>
    /\ calls = <<>>
    /\ arg = None
    /\ ret = None
    /\ tick = FALSE
    /\ last_event = NoEvent
    /\ last_drag = None
    /\ late_drag = FALSE

\* select_roi(imgArr) up to plt.show(), lines 47-62.  self.roi is not
\* assigned here.  On a second call the events below stand for a figure that
\* can be shown again; a figure that cannot is closed at once (SelectorClose).
SelectorCall ==
    /\ pc = "selector"
    /\ sel = "idle"
    /\ \E img \in RunShapes :
          /\ arg' = img
          /\ xlim' = ImshowXlim(img)
          /\ ylim' = ImshowYlim(img)
          /\ original_xlim' = ImshowXlim(img)
          /\ original_ylim' = ImshowYlim(img)
    /\ selecting_roi' = TRUE
    /\ sel' = "show"
    /\ ret' = None
    /\ confirmed' = FALSE
    /\ tick' = ~tick
    /\ last_event' = Event("call", None)
    /\ last_drag' = None
    /\ late_drag' = FALSE
    /\ UNCHANGED <<pc, self_roi, batch_vars>>

\* on_select(eclick, erelease) is called, lines 29-31
SelectorDrag ==
    /\ pc = "selector"
    /\ \E ex \in Coords(xlim), rx \in Coords(xlim), ey \in Coords(ylim), ry \in Coords(ylim) :
          /\ self_roi' = on_select_roi(selecting_roi, self_roi, ex, ey, rx, ry)
          /\ last_drag' = IF sel = "show" THEN Bounds(<<ex, ey, rx, ry>>) ELSE last_drag
    /\ late_drag' = (late_drag \/ sel = "closed")
    /\ tick' = ~tick
    /\ last_event' = Event("drag", None)
    /\ UNCHANGED <<pc, sel, selecting_roi, original_xlim, original_ylim, xlim, ylim,
                   confirmed, arg, ret, batch_vars>>

\* reset_zoom(event) is called, lines 40-45
SelectorReset ==
    /\ pc = "selector"
    /\ xlim' = reset_zoom_lims(original_xlim, original_ylim, xlim, ylim)[1]
    /\ ylim' = reset_zoom_lims(original_xlim, original_ylim, xlim, ylim)[2]
    /\ tick' = ~tick
    /\ last_event' = Event("reset", <<xlim, ylim>>)
    /\ UNCHANGED <<pc, sel, self_roi, selecting_roi, original_xlim, original_ylim,
                   confirmed, arg, ret, last_drag, late_drag, batch_vars>>

\* the operator pans or zooms the shown figure
SelectorPanZoom ==
    /\ pc = "selector"
    /\ sel = "show"
    /\ \E v \in Views : xlim' = v.x /\ ylim' = v.y
    /\ tick' = ~tick
    /\ last_event' = Event("panzoom", None)
    /\ UNCHANGED <<pc, sel, self_roi, selecting_roi, original_xlim, original_ylim,
                   confirmed, arg, ret, last_drag, late_drag, batch_vars>>

\* confirm_roi(event) is called, lines 33-38: it prints, and with a
\* candidate it then calls plt.close(), which closes the figure if it is
\* shown.  When print() raises (prt is false) the handler ends there, the
\* event loop reports the exception and goes on.
SelectorConfirm ==
    /\ pc = "selector"
    /\ Handling
    /\ tick' = ~tick
    /\ \E prt \in BOOLEAN :
          /\ last_event' = IF prt THEN Event("confirm", None) ELSE Raised("confirm")
          /\ IF prt /\ ConfirmCloses(self_roi) /\ sel = "show"
             THEN /\ confirmed' = TRUE
                  /\ sel' = "closed"
             ELSE UNCHANGED <<confirmed, sel>>
    /\ UNCHANGED <<pc, self_roi, selecting_roi, original_xlim, original_ylim, xlim, ylim,
                   arg, ret, last_drag, late_drag, batch_vars>>

\* the operator closes the figure's window
SelectorClose ==
    /\ pc = "selector"
    /\ sel = "show"
    /\ sel' = "closed"
    /\ tick' = ~tick
    /\ last_event' = Event("close", None)
    /\ UNCHANGED <<pc, self_roi, selecting_roi, original_xlim, original_ylim, xlim, ylim,
                   confirmed, arg, ret, last_drag, late_drag, batch_vars>>

\* the figure has closed and plt.show() returns: lines 63-67 of select_roi
SelectorReturn ==
    /\ pc = "selector"
    /\ sel = "closed"
    /\ selecting_roi' = FALSE
    /\ sel' = "idle"
    /\ ret' = <<[raised |-> SelectRaises(self_roi), roi |-> self_roi]>>
    /\ tick' = ~tick
    /\ last_event' = Event("return", None)
    /\ UNCHANGED <<pc, self_roi, original_xlim, original_ylim, xlim, ylim, confirmed, arg,
                   last_drag, late_drag, batch_vars>>

NextSelector ==
    \/ SelectorCall
    \/ SelectorDrag
    \/ SelectorConfirm
    \/ SelectorReset
    \/ SelectorPanZoom
    \/ SelectorClose
    \/ SelectorReturn

SpecSelector == InitSelector /\ [][NextSelector]_vars

----------------------------------------------------------------------------
(* Properties of a whole run *)

Failed(c) == c.raised \/ c.value = None

\* C1: every key of the mapping batch_process builds is a path whose
\* process_image call returned a value; a path whose call raised or returned
\* None has no key.
C1_ResultKeysSucceeded ==
    /\ \A i \in 1..Len(results) :
          \E j \in 1..Len(calls) : calls[j].path = results[i][1] /\ ~Failed(calls[j])
    /\ \A j \in 1..Len(calls) : Failed(calls[j]) => calls[j].path \notin Keys(results)

\* a run that returned a non-empty mapping although one call raised and
\* another returned None
C1_Witness ==
    /\ pc = "returned"
    /\ results # <<>>
    /\ \E j \in 1..Len(calls) : calls[j].raised
    /\ \E j \in 1..Len(calls) : ~calls[j].raised /\ calls[j].value = None

SelectionEnded == pc \in {"loop", "returned"} \/ error \in {"NoRoiSelected"} \cup ExceptionKinds

\* C2: when the figure is closed without the confirm button having closed it,
\* select_roi raises NoRoiSelected and hands no rectangle to batch_process,
\* whether or not a drag was completed before.
C2_CloseWithoutConfirmFails ==
    (SelectionEnded /\ ~confirmed) => (error = "NoRoiSelected" /\ roi = None)

\* C7: every rectangle a process_image call of the loop crops with has
\* x1 < x2 and y1 < y2.
C7_CropRectsOrdered ==
    \A j \in 1..Len(calls) :
        ~calls[j].raised => (calls[j].roi[1] < calls[j].roi[3] /\ calls[j].roi[2] < calls[j].roi[4])

\* C8: get_roi is called at most once, and exactly once in every run that
\* discovered an image, on the first and least path of the discovery list; no
\* process_image call happens before the selection has ended, and every
\* process_image call is given the rectangle the selection returned.
C8_OneSelectionBeforeLoop ==
    /\ Len(selections) <= 1
    /\ (pc \notin {"start", "discovered"} /\ error # "NoImagesFound") => Len(selections) = 1
    /\ selections # <<>> =>
          /\ selections[1] = image_paths[1]
          /\ \A i \in 1..Len(image_paths) : ~StrLess(image_paths[i], selections[1])
    /\ sel = "show" => calls = <<>>
    /\ calls # <<>> => (Len(selections) = 1 /\ SelectionEnded /\ roi # None)
    /\ \A j \in 1..Len(calls) : calls[j].roi = roi

\* a finished run of two or more images
C8_Witness ==
    /\ pc = "returned"
    /\ Len(calls) >= 2
    /\ confirmed

\* C9: with no image left after the filter, batch_process raises NoImagesFound
\* and get_roi is never called: no selector exists and nothing is decoded;
\* get_roi is only ever called with a non-empty list.
C9_NoImagesStopsBeforeSelection ==
    /\ (pc # "start" /\ image_paths = <<>>) =>
          /\ pc = "raised"
          /\ error = "NoImagesFound"
          /\ selections = <<>>
          /\ decodes = <<>>
          /\ sel = "none"
    /\ selections # <<>> => Len(image_paths) >= 1
    /\ error = "NoImagesFound" => image_paths = <<>>

\* a tree that holds files, none of which is discovered
C9_Witness ==
    /\ error = "NoImagesFound"
    /\ fs # {}

\* C10: once get_roi has returned a rectangle the run never raises; the calls
\* made so far are the first paths of the list, one call each, in order; the
\* loop can always take its next step, and at the return every discovered path
\* has been evaluated exactly once.
C10_LoopRunsToCompletion ==
    /\ roi # None => (pc \in {"loop", "returned"} /\ error = "none")
    /\ pc \in {"loop", "returned"} =>
          /\ Len(calls) = idx - 1
          /\ \A j \in 1..Len(calls) : calls[j].path = image_paths[j]
    /\ pc = "loop" => ENABLED (LoopStep \/ Return)
    /\ pc = "returned" =>
          \A i \in 1..Len(image_paths) :
              Cardinality({ j \in 1..Len(calls) : calls[j].path = image_paths[i] }) = 1

\* C10, amended: once get_roi has returned a rectangle the run raises only
\* what is not an Exception (KeyboardInterrupt, SystemExit, GeneratorExit); an
\* absent result and an Exception raised for one path are absorbed and the
\* loop goes on: the calls made so far are the first paths of the list, one
\* call each, in order, the loop can always take its next step, and at the
\* return every discovered path has been evaluated exactly once.
C10_LoopAbsorbsExceptions ==
    /\ roi # None =>
          \/ pc \in {"loop", "returned"} /\ error = "none"
          \/ pc = "raised" /\ error = "BaseException"
    /\ pc \in {"loop", "returned"} =>
          /\ Len(calls) = idx - 1
          /\ \A j \in 1..Len(calls) : calls[j].path = image_paths[j]
    /\ pc = "loop" => ENABLED (LoopStep \/ Return)
    /\ pc = "returned" =>
          \A i \in 1..Len(image_paths) :
              Cardinality({ j \in 1..Len(calls) : calls[j].path = image_paths[i] }) = 1

\* a finished run whose first image raised, whose second image was stored
\* but could not be printed, and whose third image was evaluated all the same
C10_Witness ==
    /\ pc = "returned"
    /\ Len(calls) = 3
    /\ calls[1].raised
    /\ ~Failed(calls[2]) /\ printed = <<>>
    /\ calls[3].path = image_paths[3]

\* the <<path, value>> pairs of the calls that returned a value, in call order
RECURSIVE Produced(_)
Produced(cs) ==
    IF cs = <<>> THEN <<>>
    ELSE IF Failed(cs[1]) THEN Produced(Tail(cs))
    ELSE <<<<cs[1].path, cs[1].value[1]>>>> \o Produced(Tail(cs))

\* C11: the mapping batch_process builds holds exactly one entry for each path
\* whose process_image call returned a value, mapped to that value, and the
\* entries stand in the sorted order of the discovery list: the calls follow
\* the list, and the keys increase strictly.
C11_ResultsInDiscoveryOrder ==
    /\ Len(calls) <= Len(image_paths)
    /\ \A j \in 1..Len(calls) : calls[j].path = image_paths[j]
    /\ pc = "returned" => Len(calls) = Len(image_paths)
    /\ results = Produced(calls)
    /\ \A i, j \in 1..Len(results) : i < j => StrLess(results[i][1], results[j][1])

\* a finished run of three images of which the second produced no value:
\* the mapping holds the first and the third, in this order
C11_Witness ==
    /\ pc = "returned"
    /\ Len(image_paths) = 3
    /\ Failed(calls[2])
    /\ Len(results) = 2
    /\ results[1][1] = image_paths[1]
    /\ results[2][1] = image_paths[3]

\* C16: a run that stopped with NoImagesFound or NoRoiSelected has called
\* process_image for no path, printed no line and built no entry, and it
\* raised instead of returning a mapping; process_image is called, a line
\* printed and an entry built only in a run that found images and was given a
\* rectangle.
C16_FatalFaultsPrecedeResults ==
    /\ error \in {"NoImagesFound", "NoRoiSelected"} =>
          /\ pc = "raised"
          /\ calls = <<>>
          /\ printed = <<>>
          /\ results = <<>>
    /\ (calls # <<>> \/ printed # <<>> \/ results # <<>>) =>
          /\ image_paths # <<>>
          /\ roi # None
          /\ error \notin {"NoImagesFound", "NoRoiSelected"}

\* a run of several images that stopped because the figure was closed with
\* no ROI selected
C16_Witness ==
    /\ pc = "raised"
    /\ error = "NoRoiSelected"
    /\ Len(image_paths) >= 2
    /\ Len(selections) = 1

\* C18: a line is printed for a path exactly when an entry for the path is
\* stored, also when print() itself fails: at the end of a run the printed
\* lines name the keys of the returned mapping, in the same order.
C18_PrintedLinesAreKeys ==
    pc = "returned" =>
        /\ Len(printed) = Len(results)
        /\ \A i \in 1..Len(results) : printed[i].path = results[i][1]

----------------------------------------------------------------------------
(* Properties of a ROISelector *)

\* C12: a click on 'Confirm ROI' while no candidate ROI exists raises nothing
\* and changes nothing: the handler does not raise, the candidate stays
\* absent, the selector stays armed with its figure shown and not closed,
\* the view and the limits captured for 'Reset Zoom' are as before,
\* select_roi has not returned, and drags and further clicks on
\* 'Confirm ROI' are accepted afterwards.
C12_ConfirmWithoutCandidateIsNoOp ==
    /\ [][(last_event'.kind = "confirm" /\ tick' # tick /\ sel = "show" /\ self_roi = None) =>
              /\ ~last_event'.raised
              /\ UNCHANGED <<pc, error, sel, self_roi, selecting_roi, original_xlim,
                             original_ylim, xlim, ylim, confirmed, arg, ret, last_drag>>
              /\ sel' = "show"]_vars
    /\ []((last_event.kind = "confirm" /\ sel = "show" /\ self_roi = None) =>
              /\ self_roi = None
              /\ selecting_roi
              /\ ret = None
              /\ ENABLED SelectorDrag
              /\ ENABLED SelectorConfirm)

\* 'Confirm ROI' was clicked during a select_roi call in which nothing had
\* been dragged, and the figure is still shown
C12_Witness ==
    /\ pc = "selector"
    /\ last_event.kind = "confirm"
    /\ sel = "show"
    /\ last_drag = None
    /\ self_roi = None

\* C13: while the figure is shown the candidate is the bounds (press x,
\* press y, release x, release y, as whole pixels) of the drag completed
\* last, each drag replacing the one before; a select_roi call in which a
\* drag was completed and which 'Confirm ROI' ended returns exactly the
\* bounds of the last drag before that click, and no event delivered after
\* the figure was closed changes that rectangle.
C13_ReturnsLastDragBeforeConfirm ==
    /\ (sel = "show" /\ last_drag # None) => self_roi = last_drag
    /\ (sel = "idle" /\ confirmed /\ last_drag # None) =>
          /\ ret = <<[raised |-> FALSE, roi |-> last_drag]>>
          /\ self_roi = last_drag

\* C14: a click on 'Reset Zoom' while the figure is shown leaves the
\* candidate ROI and the armed state as they are and sets the view limits to
\* exactly the limits select_roi captured when it displayed the image,
\* whatever the view was before the click.
C14_ResetZoomRestoresView ==
    [][(last_event'.kind = "reset" /\ tick' # tick /\ sel = "show") =>
          /\ UNCHANGED <<pc, error, sel, self_roi, selecting_roi, original_xlim,
                         original_ylim, confirmed, arg, ret, last_drag>>
          /\ xlim' = ImshowXlim(arg)
          /\ ylim' = ImshowYlim(arg)]_vars

\* 'Reset Zoom' was clicked in a zoomed view of a 2 x 2 image with a
\* candidate ROI, and the view is the whole image again
C14_Witness ==
    /\ sel = "show"
    /\ arg = <<2, 2>>
    /\ self_roi # None
    /\ last_event.kind = "reset"
    /\ last_event.from = <<<<-1, 1>>, <<1, -1>>>>
    /\ xlim = <<-1, 3>>
    /\ ylim = <<3, -1>>

\* C19: on_select writes self.roi only while selecting_roi is true;
\* selecting_roi is true exactly while select_roi has the figure shown,
\* from the display of the image until the figure has closed; a drag
\* reported before select_roi is called or after it has returned leaves the
\* candidate as it was, and nothing but a drag reported while armed changes
\* the candidate.
C19_DragCommitsOnlyWhileArmed ==
    /\ [](selecting_roi <=> sel = "show")
    /\ [][(last_event'.kind = "drag" /\ tick' # tick /\ sel # "show") =>
              self_roi' = self_roi]_vars
    /\ [][self_roi' # self_roi =>
              (selecting_roi /\ sel = "show" /\ last_event'.kind = "drag")]_vars

\* C20: every rectangle select_roi returns was committed by a drag completed
\* during that same call; a call in which nothing was dragged raises
\* NoRoiSelected, also when an earlier call on the same ROISelector left a
\* rectangle behind.
C20_ReturnedRectangleIsFromThisCall ==
    (pc = "selector" /\ sel = "idle" /\ ret # None) =>
        (ret[1].raised <=> (last_drag = None /\ ~late_drag))

----------------------------------------------------------------------------
(* Properties of discovery *)

\* .jpg  .jpeg  .png
ImageExts ==
    { <<".", "j", "p", "g">>, <<".", "j", "p", "e", "g">>, <<".", "p", "n", "g">> }

\* the number of path segments of a file below the directory
Depth(rel) == Len(Split(rel, sep))

\* the path string of a file of the tree, as glob spells it
FullPath(dir, rel) == PathJoin(StripSeps(dir), rel)

Discovered == { image_paths[i] : i \in 1..Len(image_paths) }

\* a file one of the two patterns of batch_process matches
Matched(rel) ==
    /\ Visible(rel)
    /\ \/ FnMatch(Last(Split(rel, sep)), GlobName(file_pattern(<<>>)))
       \/ FnMatch(Last(Split(rel, sep)), GlobName(jpeg_pattern(<<>>)))

\* C4: every discovered path ends in .jpg, .jpeg or .png, and every file with
\* one of these extensions that is not hidden and lies within the depth bound
\* is discovered.
C4_OnlyImageExtensions ==
    pc # "start" =>
        /\ \A i \in 1..Len(image_paths) :
              /\ Ext(image_paths[i]) \in ImageExts
              /\ \E f \in fs : image_paths[i] = FullPath(directory_path, f)
        /\ \A f \in fs :
              (Visible(f) /\ Ext(f) \in ImageExts /\ Depth(f) <= MaxDepth)
                  => FullPath(directory_path, f) \in Discovered

\* C5: whatever the spelling of the directory, the discovered paths are
\* exactly the matched files with at most 4 path segments below the directory.
C5_DepthBound ==
    pc # "start" =>
        Discovered = { FullPath(directory_path, f) :
                         f \in { g \in fs : Matched(g) /\ Depth(g) <= MaxDepth } }

\* C15: the discovery list increases strictly in the order of its strings:
\* it is sorted and holds no path twice, although it is the concatenation of
\* the matches of two patterns, and the depth filter keeps the order.
C15_PathsStrictlyIncreasing ==
    \A i, j \in 1..Len(image_paths) : i < j => StrLess(image_paths[i], image_paths[j])

\* a discovery whose list holds matches of both patterns, the one of
\* '*.jpeg' standing before a match of '*.[jp][pn]g', below a directory that
\* also holds a file the depth filter dropped
C15_Witness ==
    /\ pc = "discovered"
    /\ Len(image_paths) >= 3
    /\ \E i, j \in 1..Len(image_paths) :
          /\ i < j
          /\ Ext(image_paths[i]) = <<".", "j", "p", "e", "g">>
          /\ Ext(image_paths[j]) = <<".", "p", "n", "g">>
    /\ \E f \in fs : Matched(f) /\ FullPath(directory_path, f) \notin Discovered

----------------------------------------------------------------------------
(* Properties of process_image *)

\* no pixel of the image lies in the rectangle
NoCommonPixel(r, img) ==
    ~ \E x \in 0..(img[1] - 1), y \in 0..(img[2] - 1) :
         r[1] <= x /\ x < r[3] /\ r[2] <= y /\ y < r[4]

\* C3: process_image never raises, whichever of its stages fails.
C3_ProcessImageNeverRaises ==
    pc = "evaluated" => ~ret[1].raised

\* C6: for a rectangle that has no pixel in common with the decoded image,
\* process_image returns None and CalculateMtf is not called.
C6_OutsideRoiAbsent ==
    (pc = "evaluated" /\ arg.img # None /\ arg.roi # None /\ NoCommonPixel(arg.roi, arg.img))
        => (~ret[1].raised /\ ret[1].value = None /\ ~ret[1].engine)

====
